---- MODULE Spec2Model ----
(***************************************************************************)
(* A model of panel/layout.py: the list-based containers (Row/Column), the *)
(* tabbed container (Tabs) and the grid container (GridSpec).              *)
(*                                                                         *)
(* Three containers share the module, each over its own variables:     *)
(*   SpecList        a Row materialized under a display root and mutated   *)
(*   SpecTabs        a Tabs container and its parallel list of labels      *)
(*   SpecTabsAssign  a Tabs container whose objects are assigned directly  *)
(*   SpecGrid        a GridSpec and its region assignments                 *)
(*   SpecGridSlice   a GridSpec that is filled and then sliced             *)
(***************************************************************************)
EXTENDS Integers, Sequences, FiniteSets, TLC

\* ------------------------------------------------------------------ bounds
MaxLen == 3
MaxNodes == 4
MaxPanes == 1

\* ------------------------------------------------------------ components
\* Viewables are Components built by the caller; raw content is wrapped
\* into a fresh Pane by panel().
Viewables == {"A", "B", "C"}
Raw == {"raw"}
Contents == Viewables \cup Raw
PaneIds == <<"pane1", "pane2", "pane3", "pane4", "pane5", "pane6", "pane7", "pane8">>
Panes == {PaneIds[i] : i \in 1..MaxPanes}
Comps == Viewables \cup Panes

Roots == {1, 2}
RootOrder == <<1, 2>>

NoNode == [id |-> 0, of |-> "none"]
Absent == [node |-> NoNode, parent |-> NoNode]

Range(s) == {s[i] : i \in 1..Len(s)}

\* Python's None, where an int is expected: an open slice bound
None == -99
\* [None]*n
\* no arguments recorded
NoArgs == [kind |-> "none"]
Nones(n) == [i \in 1..n |-> "None"]

VARIABLES
  objects,    \* ListPanel.objects
  models,     \* every child's _models ledger: component -> root -> (model, parent)
  own,        \* the container's own _models ledger: root -> (model, parent)
  children,   \* the backend node's children property, per root
  nextNode,   \* identity of the next backend node created
  nextPane,   \* identity of the next Pane created by panel()
  ref,        \* a plain list the same calls are applied to
  call        \* the last call: what it was and what it did

listVars == <<objects, models, own, children, nextNode, nextPane, ref, call>>

VARIABLES
  tobjects,   \* Tabs.objects
  names,      \* Tabs._names
  tnextPane,  \* identity of the next Pane created by panel() for the Tabs
  tref,       \* a plain list of (Component, label) the same calls are applied to
  tcall       \* the last call on the Tabs and the error it raised

tabsVars == <<tobjects, names, tnextPane, tref, tcall>>

VARIABLES
  gobjects,   \* GridSpec.objects, the (key, obj) items in insertion order
  gcall,      \* the last region assignment and the error it raised
  gsub        \* the last extraction and the GridSpec it returned

gridVars == <<gobjects, gcall, gsub>>

VARIABLES
  args        \* the arguments of the last indexed call (index, slice, pop)

argVars == <<args>>

VARIABLES
  nkids,      \* objects of the outer container P and of the container Q
  nled,       \* _models of P, Q and the leaves: per root, (node, parent)
  nshown,     \* per container and root, the children pushed to its node
  nnext,      \* the id of the next backend node
  ncall       \* the last call on the nested containers

nestVars == <<nkids, nled, nshown, nnext, ncall>>

VARIABLES
  tled,       \* _models of the children of the Tabs: per root, (node, parent)
  town,       \* _models of the Tabs itself
  tshown,     \* per root, the (title, child) tabs pushed to the Tabs' node
  tnextNode   \* the id of the next backend node of the Tabs' display

tabsShowVars == <<tled, town, tshown, tnextNode>>

VARIABLES
  gled,       \* _models of the children of the GridSpec: per root, (node, parent)
  gown,       \* _models of the GridSpec itself
  gshown,     \* per root, the (model, r, c, h, w) children pushed to its node
  gnextNode   \* the id of the next backend node of the grid's display

gridShowVars == <<gled, gown, gshown, gnextNode>>

vars == <<listVars, tabsVars, gridVars, argVars, nestVars, tabsShowVars, gridShowVars>>

\* what a call on one container leaves alone: the other containers
exceptList == <<tabsVars, gridVars, nestVars, tabsShowVars, gridShowVars>>
exceptTabs == <<listVars, gridVars, nestVars, gridShowVars>>
exceptGrid == <<listVars, tabsVars, nestVars, tabsShowVars>>
exceptNest == <<listVars, tabsVars, gridVars, argVars, tabsShowVars, gridShowVars>>

\* ---------------------------------------------------------- python lists
\* list.insert(index, x): the index is clamped into 0..len
PyInsertAt(s, index) ==
  LET n == Len(s)
      i == IF index < 0 THEN index + n ELSE index
  IN  IF i < 0 THEN 0 ELSE IF i > n THEN n ELSE i

PyInsert(s, index, x) ==
  LET k == PyInsertAt(s, index)
  IN  SubSeq(s, 1, k) \o <<x>> \o SubSeq(s, k + 1, Len(s))

\* a[index] position (0-based), or -1 when out of range (IndexError)
PyPos(s, index) ==
  LET n == Len(s)
      i == IF index < 0 THEN index + n ELSE index
  IN  IF i < 0 \/ i >= n THEN -1 ELSE i

PyDelete(s, k) == SubSeq(s, 1, k) \o SubSeq(s, k + 2, Len(s))

\* list.index(x), 0-based; x is known to be in s
PyIndex(s, x) == (CHOOSE i \in 1..Len(s) : s[i] = x /\ \A j \in 1..(i - 1) : s[j] # x) - 1

PyReverse(s) == [i \in 1..Len(s) |-> s[Len(s) + 1 - i]]

\* ------------------------------------------------------------- wrapping
\* panel(obj): a Viewable is returned as is, anything else becomes a new Pane
panel(obj, fresh) == IF obj \in Viewables THEN obj ELSE PaneIds[fresh]

IsRaw(obj) == obj \notin Viewables

RECURSIVE WrapAll(_, _)
WrapAll(panes, fresh) ==
  IF panes = <<>> THEN <<>>
  ELSE <<panel(Head(panes), fresh)>>
       \o WrapAll(Tail(panes), IF IsRaw(Head(panes)) THEN fresh + 1 ELSE fresh)

RawCount(panes) == Cardinality({i \in 1..Len(panes) : IsRaw(panes[i])})

\* ------------------------------------------------- ListPanel's methods
\* assigns lists every value the method assigns to self.objects, in order.
Ok(objs) == [err |-> "none", assigns |-> <<objs>>]
Raise(e) == [err |-> e, assigns |-> <<>>]

ListAppend(objs, pane, fresh) == Ok(Append(objs, panel(pane, fresh)))

ListClear(objs) == Ok(<<>>)

ListExtend(objs, panes, fresh) == Ok(objs \o WrapAll(panes, fresh))

\* insert that ignores the index and appends
ListInsertAppends(objs, index, pane, fresh) == Ok(Append(objs, panel(pane, fresh)))

ListInsert(objs, index, pane, fresh) == Ok(PyInsert(objs, index, panel(pane, fresh)))

\* pop that removes the last element whatever it is given
ListPopLast(objs, arg) ==
  IF "obj" \in DOMAIN arg /\ arg.obj \notin Range(objs) THEN Raise("TypeError")
  ELSE IF "idx" \in DOMAIN arg /\ PyPos(objs, arg.idx) = -1 THEN Raise("IndexError")
  ELSE Ok(SubSeq(objs, 1, Len(objs) - 1))

\* pop(index): index is {obj: c} when a Component is passed, {idx: i} for an int
ListPop(objs, arg) ==
  LET index == IF "obj" \in DOMAIN arg
               THEN (IF arg.obj \in Range(objs) THEN PyIndex(objs, arg.obj) ELSE -99)
               ELSE arg.idx
  IN  IF index = -99 THEN Raise("TypeError")
      ELSE IF PyPos(objs, index) = -1 THEN Raise("IndexError")
      ELSE Ok(PyDelete(objs, PyPos(objs, index)))

ListRemove(objs, pane) ==
  IF pane \notin Range(objs) THEN Raise("ValueError")
  ELSE Ok(PyDelete(objs, PyIndex(objs, pane)))

ListReverse(objs) == Ok(PyReverse(objs))

\* index assignment that appends when the index is the length
ListSetIndexAppends(objs, index, pane, fresh) ==
  IF index > Len(objs) THEN Raise("IndexError")
  ELSE IF index = Len(objs) THEN Ok(Append(objs, panel(pane, fresh)))
  ELSE IF PyPos(objs, index) = -1 THEN Raise("IndexError")
  ELSE Ok([objs EXCEPT ![PyPos(objs, index) + 1] = panel(pane, fresh)])

\* container[index] = pane with an int index
ListSetIndex(objs, index, pane, fresh) ==
  IF index > Len(objs) THEN Raise("IndexError")
  ELSE IF PyPos(objs, index) = -1 THEN Raise("IndexError")
  ELSE Ok([objs EXCEPT ![PyPos(objs, index) + 1] = panel(pane, fresh)])

\* for i, pane in zip(range(start, end), panes): new_objects[i] = panel(pane)
RECURSIVE ListSetLoop(_, _, _, _, _)
ListSetLoop(objs, i, end, panes, fresh) ==
  IF i >= end \/ panes = <<>> THEN Ok(objs)
  ELSE IF PyPos(objs, i) = -1 THEN Raise("IndexError")
  ELSE ListSetLoop([objs EXCEPT ![PyPos(objs, i) + 1] = panel(Head(panes), fresh)],
                   i + 1, end, Tail(panes),
                   IF IsRaw(Head(panes)) THEN fresh + 1 ELSE fresh)

\* slice assignment that takes a list of any length
ListSetSliceAnyCount(objs, start, stop, rhs, fresh) ==
  LET first == IF start = None THEN 0 ELSE start
      end == IF stop = None THEN Len(objs) ELSE stop
  IN  IF start = None /\ stop = None
      THEN IF ~rhs.list THEN Raise("IndexError")
           ELSE ListSetLoop(Nones(Len(rhs.items)), first, Len(rhs.items), rhs.items, fresh)
      ELSE IF end > Len(objs) THEN Raise("IndexError")
      ELSE IF ~rhs.list THEN Raise("IndexError")
      ELSE ListSetLoop(objs, first, end, rhs.items, fresh)

\* container[start:stop] = rhs; rhs.list tells a list from anything else
ListSetSlice(objs, start, stop, rhs, fresh) ==
  LET first == IF start = None THEN 0 ELSE start
      end == IF stop = None THEN Len(objs) ELSE stop
  IN  IF start = None /\ stop = None
      THEN IF ~rhs.list THEN Raise("IndexError")
           ELSE ListSetLoop(Nones(Len(rhs.items)), first, Len(rhs.items), rhs.items, fresh)
      ELSE IF end > Len(objs) THEN Raise("IndexError")
      ELSE IF ~rhs.list \/ Len(rhs.items) # end - first THEN Raise("IndexError")
      ELSE ListSetLoop(objs, first, end, rhs.items, fresh)

\* __len__ and __iter__
ListLen(objs) == Len(objs)
ListIter(objs) == [i \in 1..Len(objs) |-> objs[i]]

\* ------------------------------------------------ reconciliation (Panel)
\* a leaf node that is pushed in front of its siblings
LeafGetModelPrepends(acc, pane, r, parent) ==
  LET child == [id |-> acc.next, of |-> pane]
  IN  [acc EXCEPT !.models = <<child>> \o @,
                  !.led[pane][r] = [node |-> child, parent |-> parent],
                  !.next = @ + 1]

\* A leaf's _get_model: a new backend node, registered under the root with
\* the node it was materialized against as its parent.
LeafGetModel(acc, pane, r, parent) ==
  LET child == [id |-> acc.next, of |-> pane]
  IN  [acc EXCEPT !.models = Append(@, child),
                  !.led[pane][r] = [node |-> child, parent |-> parent],
                  !.next = @ + 1]

\* reconciliation that materializes a surviving pane again
ReuseModelRecreates(acc, pane, r) ==
  LeafGetModel(acc, pane, r, acc.led[pane][r].parent)

\* The branch of _get_objects that reuses the node of a pane of old_objects.
ReuseModel(acc, pane, r) ==
  IF acc.led[pane][r] = Absent
  THEN [acc EXCEPT !.err = "KeyError"]
  ELSE [acc EXCEPT !.models = Append(@, acc.led[pane][r].node)]

\* Reactive._cleanup(root) of a leaf: the root's ledger entry is dropped.
Cleanup(acc, obj, r) ==
  [acc EXCEPT !.led[obj][r] = Absent, !.cleaned = Append(@, obj)]

RECURSIVE NewModelsLoop(_, _, _, _, _, _)
NewModelsLoop(objs, old, r, parent, i, acc) ==
  IF i > Len(objs) \/ acc.err # "none" THEN acc
  ELSE NewModelsLoop(objs, old, r, parent, i + 1,
         IF objs[i] \in Range(old)
         THEN ReuseModel(acc, objs[i], r)
         ELSE LeafGetModel(acc, objs[i], r, parent))

RECURSIVE CleanupLoop(_, _, _, _, _)
CleanupLoop(objs, old, r, i, acc) ==
  IF i > Len(old) \/ acc.err # "none" THEN acc
  ELSE CleanupLoop(objs, old, r, i + 1,
         IF old[i] \notin Range(objs) THEN Cleanup(acc, old[i], r) ELSE acc)

\* Panel._get_objects(model, old_objects, doc, root): acc.models is returned
GetObjects(objs, old, r, parent, led, next) ==
  CleanupLoop(objs, old, r, 1,
    NewModelsLoop(objs, old, r, parent, 1,
      [models |-> <<>>, led |-> led, next |-> next, err |-> "none",
       cleaned |-> <<>>]))

\* Panel._update_model for the event of one assignment to objects: the new
\* children are computed and pushed in one model.update
UpdateModel(st, objs, old, r) ==
  LET g == GetObjects(objs, old, r, st.own[r].node, st.led, st.next)
  IN  IF g.err # "none"
      THEN [st EXCEPT !.led = g.led, !.next = g.next, !.err = g.err]
      ELSE [st EXCEPT !.led = g.led, !.next = g.next,
                      !.children[r] = g.models,
                      !.updates[r] = @ + 1,
                      !.cleaned[r] = @ \o g.cleaned]

\* The property-change mechanism: an assignment to objects raises one event,
\* delivered to _update_model once for every root the container has a model for.
RECURSIVE Dispatch(_, _, _, _)
Dispatch(st, objs, old, k) ==
  IF k > Len(RootOrder) \/ st.err # "none" THEN st
  ELSE Dispatch(IF st.own[RootOrder[k]] = Absent THEN st
                ELSE UpdateModel(st, objs, old, RootOrder[k]),
                objs, old, k + 1)

NoCounts == [r \in Roots |-> 0]
NoSeqs == [r \in Roots |-> <<>>]

Start(led, ownLed, kids, next) ==
  [led |-> led, own |-> ownLed, children |-> kids, next |-> next, err |-> "none",
   updates |-> NoCounts, cleaned |-> NoSeqs, assigned |-> 0]

\* Panel._get_model(doc, root=None): the container is materialized as a root
GetModel(st, objs, r) ==
  LET model == [id |-> st.next, of |-> "row"]
      g == GetObjects(objs, <<>>, r, model, st.led, st.next + 1)
  IN  [st EXCEPT !.led = g.led, !.next = g.next, !.err = g.err,
                 !.children[r] = g.models,
                 !.own[r] = [node |-> model, parent |-> NoNode]]

\* ------------------------------------------------ the list container
MaxExtend == 2

\* every index a call can tell apart: in range, one past and one before
Indexes(s) == (0 - Len(s) - 1)..(Len(s) + 1)
\* the roots the list container is displayed under
ListRoots == {1}
ExtendArgs == UNION {[1..n -> Contents] : n \in 0..MaxExtend}
\* the bounds of a slice, and what is assigned to it: a list, or no list
ListSliceBounds(s) == {None} \cup (0..Len(s))
ListSliceItems == {"A", "raw"}
ListSliceRhs == {[list |-> TRUE, items |-> q] : q \in ExtendArgs \cap Seq(ListSliceItems)}
                  \cup {[list |-> FALSE, items |-> <<>>]}

\* self.objects = value, for each value in turn: the parameter is set and
\* the event (old, new) is dispatched before the next statement runs
RECURSIVE Assign(_, _, _, _)
Assign(st, cur, assigns, k) ==
  IF k > Len(assigns) \/ st.err # "none" THEN st
  ELSE Assign([Dispatch(st, assigns[k], cur, 1) EXCEPT !.assigned = @ + 1],
              assigns[k], assigns, k + 1)

\* One call of a mutation method: res is what the method computed, used the
\* number of Panes panel() created, plain the same call on a plain list.
MutateArgs(op, res, used, plain, a) ==
  /\ UNCHANGED exceptList
  /\ args' = a
  /\ IF res.err # "none"
     THEN /\ call' = [op |-> op, err |-> res.err, assigned |-> 0, updates |-> NoCounts,
                      cleaned |-> NoSeqs]
          /\ UNCHANGED <<objects, models, own, children, nextNode, nextPane, ref>>
     ELSE \E st \in {Assign(Start(models, own, children, nextNode), objects, res.assigns, 1)},
             new \in {res.assigns[Len(res.assigns)]} :
              /\ st.next <= MaxNodes + 1
              /\ nextPane + used <= MaxPanes + 1
              /\ Len(new) <= MaxLen
              /\ objects' = new
              /\ models' = st.led
              /\ children' = st.children
              /\ nextNode' = st.next
              /\ nextPane' = nextPane + used
              /\ ref' = plain
              /\ call' = [op |-> op, err |-> st.err, assigned |-> st.assigned,
                          updates |-> st.updates, cleaned |-> st.cleaned]
              /\ UNCHANGED own

Mutate(op, res, used, plain) == MutateArgs(op, res, used, plain, NoArgs)

\* the same calls on a plain list of the wrapped Components
PlainInsert(s, index, x) ==
  LET n == Len(s)
      p == IF index >= n THEN n + 1
           ELSE IF index >= 0 THEN index + 1
           ELSE IF index + n >= 0 THEN index + n + 1 ELSE 1
  IN  [k \in 1..(n + 1) |-> IF k < p THEN s[k] ELSE IF k = p THEN x ELSE s[k - 1]]

PlainPop(s, index) ==
  LET n == Len(s)
      p == IF index >= 0 THEN index + 1 ELSE index + n + 1
  IN  [k \in 1..(n - 1) |-> IF k < p THEN s[k] ELSE s[k + 1]]

PlainFirst(s, x) == CHOOSE i \in 1..Len(s) : s[i] = x /\ \A j \in 1..(i - 1) : s[j] # x

PlainRemove(s, x) ==
  [k \in 1..(Len(s) - 1) |-> IF k < PlainFirst(s, x) THEN s[k] ELSE s[k + 1]]

PlainReverse(s) == [k \in 1..Len(s) |-> s[Len(s) - k + 1]]

Uses(pane) == IF IsRaw(pane) THEN 1 ELSE 0

Materialize(r) ==
  /\ own[r] = Absent
  /\ \E st \in {GetModel(Start(models, own, children, nextNode), objects, r)} :
         /\ st.next <= MaxNodes + 1
         /\ models' = st.led
         /\ own' = st.own
         /\ children' = st.children
         /\ nextNode' = st.next
         /\ call' = [op |-> "materialize", err |-> st.err, assigned |-> 0,
                     updates |-> NoCounts, cleaned |-> NoSeqs]
  /\ UNCHANGED <<objects, nextPane, ref>>
  /\ UNCHANGED <<exceptList, argVars>>

DoAppend(pane) ==
  Mutate("append", ListAppend(objects, pane, nextPane), Uses(pane),
         ref \o <<panel(pane, nextPane)>>)

DoClear == Mutate("clear", ListClear(objects), 0, <<>>)

DoExtend(panes) ==
  Mutate("extend", ListExtend(objects, panes, nextPane), RawCount(panes),
         ref \o WrapAll(panes, nextPane))

DoInsert(index, pane) ==
  Mutate("insert", ListInsert(objects, index, pane, nextPane), Uses(pane),
         PlainInsert(ref, index, panel(pane, nextPane)))

DoPopIndex(index) ==
  Mutate("pop", ListPop(objects, [idx |-> index]), 0, PlainPop(ref, index))

DoPopObject(pane) ==
  Mutate("pop", ListPop(objects, [obj |-> pane]), 0, PlainRemove(ref, pane))

DoRemove(pane) ==
  Mutate("remove", ListRemove(objects, pane), 0, PlainRemove(ref, pane))

DoReverse == Mutate("reverse", ListReverse(objects), 0, PlainReverse(ref))

DoSetIndex(index, pane) ==
  Mutate("setitem", ListSetIndex(objects, index, pane, nextPane), Uses(pane),
         [ref EXCEPT ![IF index >= 0 THEN index + 1 ELSE index + Len(ref) + 1]
                       = panel(pane, nextPane)])

\* the slice of a plain list assigned position by position
PlainSetSlice(s, start, stop, panes) ==
  IF start = None /\ stop = None THEN panes
  ELSE [k \in 1..Len(s) |->
          IF k - 1 >= (IF start = None THEN 0 ELSE start) /\ k - 1 < (IF stop = None THEN Len(s) ELSE stop)
          THEN panes[k - (IF start = None THEN 0 ELSE start)] ELSE s[k]]

DoSetSlice(start, stop, rhs) ==
  Mutate("setslice", ListSetSlice(objects, start, stop, rhs, nextPane),
         RawCount(rhs.items), PlainSetSlice(ref, start, stop, WrapAll(rhs.items, nextPane)))

ListInit ==
  /\ objects = <<>>
  /\ ref = objects
  /\ models = [c \in Comps |-> [r \in Roots |-> Absent]]
  /\ own = [r \in Roots |-> Absent]
  /\ children = [r \in Roots |-> <<>>]
  /\ nextNode = 1
  /\ nextPane = 1
  /\ call = [op |-> "init", err |-> "none", assigned |-> 0, updates |-> NoCounts,
             cleaned |-> NoSeqs]

ListNext ==
  \/ \E r \in ListRoots : Materialize(r)
  \/ \E pane \in Contents : DoAppend(pane)
  \/ DoClear
  \/ \E panes \in ExtendArgs : DoExtend(panes)
  \/ \E index \in Indexes(objects), pane \in Contents : DoInsert(index, pane)
  \/ \E index \in Indexes(objects) : DoPopIndex(index)
  \/ \E pane \in Comps : DoPopObject(pane)
  \/ \E pane \in Comps : DoRemove(pane)
  \/ DoReverse
  \/ \E index \in Indexes(objects), pane \in Contents : DoSetIndex(index, pane)
  \/ \E start \in ListSliceBounds(objects), stop \in ListSliceBounds(objects),
        rhs \in ListSliceRhs : DoSetSlice(start, stop, rhs)

\* the indexed calls, with their arguments recorded in args
IndexSliceBounds(s) == {None} \cup (0..(Len(s) + 1))

SetIndexAt(index, pane) ==
  MutateArgs("setitem", ListSetIndex(objects, index, pane, nextPane), Uses(pane),
             [ref EXCEPT ![IF index >= 0 THEN index + 1 ELSE index + Len(ref) + 1]
                           = panel(pane, nextPane)],
             [kind |-> "index", index |-> index, pane |-> pane])

SetSliceAt(start, stop, rhs) ==
  MutateArgs("setslice", ListSetSlice(objects, start, stop, rhs, nextPane),
             RawCount(rhs.items),
             PlainSetSlice(ref, start, stop, WrapAll(rhs.items, nextPane)),
             [kind |-> "slice", start |-> start, stop |-> stop, rhs |-> rhs])

PopAt(index) ==
  MutateArgs("pop", ListPop(objects, [idx |-> index]), 0, PlainPop(ref, index),
             [kind |-> "pop", arg |-> [idx |-> index]])

PopObject(pane) ==
  MutateArgs("pop", ListPop(objects, [obj |-> pane]), 0, PlainRemove(ref, pane),
             [kind |-> "pop", arg |-> [obj |-> pane]])

\* ======================================================= nested containers
\* A Row P that may hold a Column Q; both may hold the leaves a and b.
MaxNestNodes == 6

Boxes == {"P", "Q"}
Leaves == {"a", "b"}
NestComps == Boxes \cup Leaves
\* the collections a container is given: no Component twice, no cycle
Perms(S) == {q \in UNION {[1..n -> S] : n \in 0..2} :
               \A i \in 1..Len(q) : \A j \in 1..Len(q) : i # j => q[i] # q[j]}
NestObjects(c) == IF c = "P" THEN Perms({"Q", "a"}) ELSE Perms(Leaves)

\* Panel._cleanup(root): the container's own entry, then every child's
RECURSIVE NestCleanupLoop(_, _, _, _, _)
RECURSIVE NestCleanup(_, _, _, _)
\* _cleanup that stops at the container itself
NestCleanupShallow(acc, c, r, ks) == Cleanup(acc, c, r)

NestCleanup(acc, c, r, ks) ==
  IF c \in Leaves THEN Cleanup(acc, c, r)
  ELSE NestCleanupLoop(Cleanup(acc, c, r), ks[c], 1, r, ks)

NestCleanupLoop(acc, objs, i, r, ks) ==
  IF i > Len(objs) THEN acc
  ELSE NestCleanupLoop(NestCleanup(acc, objs[i], r, ks), objs, i + 1, r, ks)

\* Panel._get_objects and Panel._get_model of a container whose children
\* may be containers; acc.models is what _get_objects returns
RECURSIVE NestNewModels(_, _, _, _, _, _, _)
RECURSIVE NestDropOld(_, _, _, _, _, _)
RECURSIVE NestGetModel(_, _, _, _, _)

NestGetObjects(acc, c, old, r, model, ks) ==
  NestDropOld(NestNewModels([acc EXCEPT !.models = <<>>], c, old, r, model, 1, ks),
              c, old, r, 1, ks)

NestNewModels(acc, c, old, r, model, i, ks) ==
  IF i > Len(ks[c]) \/ acc.err # "none" THEN acc
  ELSE NestNewModels(
         IF ks[c][i] \in Range(old) THEN ReuseModel(acc, ks[c][i], r)
         ELSE LET sub == NestGetModel(acc, ks[c][i], r, model, ks)
              IN  [sub EXCEPT !.models = Append(acc.models, sub.led[ks[c][i]][r].node)],
         c, old, r, model, i + 1, ks)

\* a reconciliation that disposes a removed child for the other roots too
RECURSIVE NestDropOldEveryRoot(_, _, _, _, _, _)
NestDropOldEveryRoot(acc, c, old, r, i, ks) ==
  IF i > Len(old) \/ acc.err # "none" THEN acc
  ELSE NestDropOldEveryRoot(
         IF old[i] \notin Range(ks[c])
         THEN NestCleanup(NestCleanup(acc, old[i], 1, ks), old[i], 2, ks) ELSE acc,
         c, old, r, i + 1, ks)

NestDropOld(acc, c, old, r, i, ks) ==
  IF i > Len(old) \/ acc.err # "none" THEN acc
  ELSE NestDropOld(IF old[i] \notin Range(ks[c]) THEN NestCleanup(acc, old[i], r, ks) ELSE acc,
                   c, old, r, i + 1, ks)

NestGetModel(acc, c, r, parent, ks) ==
  IF c \in Leaves THEN LeafGetModel(acc, c, r, parent)
  ELSE LET model == [id |-> acc.next, of |-> c]
           g == NestGetObjects([acc EXCEPT !.next = @ + 1], c, <<>>, r, model, ks)
       IN  IF g.err # "none" THEN g
           ELSE [g EXCEPT !.shown[c][r] = g.models,
                          !.led[c][r] = [node |-> model, parent |-> parent]]

\* Panel._update_model of container c for root r, on the event (old, new)
NestUpdateModel(acc, c, old, r, ks) ==
  LET g == NestGetObjects(acc, c, old, r, acc.led[c][r].node, ks)
  IN  IF g.err # "none" THEN g ELSE [g EXCEPT !.shown[c][r] = g.models]

\* the event delivered for every root the container has a model for
RECURSIVE NestDispatch(_, _, _, _, _)
NestDispatch(acc, c, old, k, ks) ==
  IF k > Len(RootOrder) \/ acc.err # "none" THEN acc
  ELSE NestDispatch(IF acc.led[c][RootOrder[k]] = Absent THEN acc
                    ELSE NestUpdateModel(acc, c, old, RootOrder[k], ks),
                    c, old, k + 1, ks)

NestStart ==
  [models |-> <<>>, led |-> nled, shown |-> nshown, next |-> nnext, err |-> "none",
   cleaned |-> <<>>]

NestDone(op, c, r, st) ==
  /\ st.next <= MaxNestNodes + 1
  /\ nled' = st.led
  /\ nshown' = st.shown
  /\ nnext' = st.next
  /\ ncall' = [op |-> op, box |-> c, root |-> r, err |-> st.err]
  /\ UNCHANGED exceptNest

\* P is displayed: P._get_model(doc) makes the root r
NestShow(r) ==
  /\ nled["P"][r] = Absent
  /\ NestDone("materialize", "P", r, NestGetModel(NestStart, "P", r, NoNode, nkids))
  /\ UNCHANGED nkids

\* c.objects = new, the assignment every mutation method ends with
NestAssign(c, new) ==
  /\ new # nkids[c]
  /\ nkids' = [nkids EXCEPT ![c] = new]
  /\ NestDone("assign", c, 0, NestDispatch(NestStart, c, nkids[c], 1, nkids'))

\* the display under root r is closed: P._cleanup(root)
NestDispose(r) ==
  /\ nled["P"][r] # Absent
  /\ NestDone("cleanup", "P", r, NestCleanup(NestStart, "P", r, nkids))
  /\ UNCHANGED nkids

NestInit ==
  /\ nkids = [c \in Boxes |-> <<>>]
  /\ nled = [c \in NestComps |-> [r \in Roots |-> Absent]]
  /\ nshown = [c \in Boxes |-> [r \in Roots |-> <<>>]]
  /\ nnext = 1
  /\ ncall = [op |-> "init", box |-> "P", root |-> 0, err |-> "none"]

NestNext ==
  \/ \E r \in Roots : NestShow(r)
  \/ \E c \in Boxes : \E new \in NestObjects(c) : NestAssign(c, new)
  \/ \E r \in Roots : NestDispose(r)

\* =================================================================== Tabs
MaxTabs == 3
MaxTabPanes == 1

TabViewables == {"A", "B"}
TabPanes == {PaneIds[i] : i \in 1..MaxTabPanes}
TabComps == TabViewables \cup TabPanes
Labels == {"X"}
\* an item is bare content (name "none") or a (label, content) tuple
TabItems == [name : Labels \cup {"none"}, item : TabViewables \cup Raw]

\* obj.name: a Viewable is named as it was built, a Pane gets a numbered name
OwnName(obj) == obj
\* param_name(name): the name without its trailing digits
param_name(name) == IF name \in Range(PaneIds) THEN "pane" ELSE name

\* Tabs._to_object_and_name
ToObjectAndName(item, fresh) ==
  LET pane == panel(item.item, fresh)
      name == IF item.name # "none" THEN item.name
              ELSE IF item.item \in Viewables THEN OwnName(item.item)
              ELSE "none"
  IN  [pane |-> pane,
       name |-> IF name = "none" THEN param_name(OwnName(pane)) ELSE name]

\* Tabs._to_objects_and_names
RECURSIVE ToObjectsAndNames(_, _)
ToObjectsAndNames(items, fresh) ==
  IF items = <<>> THEN [objects |-> <<>>, names |-> <<>>]
  ELSE LET first == ToObjectAndName(Head(items), fresh)
           rest == ToObjectsAndNames(Tail(items),
                     IF IsRaw(Head(items).item) THEN fresh + 1 ELSE fresh)
       IN  [objects |-> <<first.pane>> \o rest.objects,
            names |-> <<first.name>> \o rest.names]

RawItems(items) == Cardinality({i \in 1..Len(items) : IsRaw(items[i].item)})

\* Tabs._update_names, the watcher of objects; event is (old, new)
UpdateNames(nms, old, new) ==
  IF Len(new) = Len(nms) THEN nms
  ELSE [i \in 1..Len(new) |->
          IF new[i] \in Range(old) THEN nms[PyIndex(old, new[i]) + 1]
          ELSE OwnName(new[i])]

\* What a Tabs method did: the error raised, the list it assigned to objects
\* (none when it raised) and _names as its in-place edits left it.
TabOk(objs, nms) == [err |-> "none", assigns |-> <<objs>>, names |-> nms]
TabRaise(e, nms) == [err |-> e, assigns |-> <<>>, names |-> nms]

TabsAppend(objs, nms, item, fresh) ==
  LET new == ToObjectAndName(item, fresh)
  IN  TabOk(Append(objs, new.pane), Append(nms, new.name))

TabsClear(objs, nms) == TabOk(<<>>, <<>>)

TabsExtend(objs, nms, items, fresh) ==
  LET new == ToObjectsAndNames(items, fresh)
  IN  TabOk(objs \o new.objects, nms \o new.names)

TabsInsert(objs, nms, index, item, fresh) ==
  LET new == ToObjectAndName(item, fresh)
  IN  TabOk(PyInsert(objs, index, new.pane), PyInsert(nms, index, new.name))

TabsPop(objs, nms, arg) ==
  LET index == IF "obj" \in DOMAIN arg
               THEN (IF arg.obj \in Range(objs) THEN PyIndex(objs, arg.obj) ELSE None)
               ELSE arg.idx
  IN  IF index = None THEN TabRaise("TypeError", nms)
      ELSE IF PyPos(objs, index) = -1 THEN TabRaise("IndexError", nms)
      ELSE IF PyPos(nms, index) = -1 THEN TabRaise("IndexError", nms)
      ELSE TabOk(PyDelete(objs, PyPos(objs, index)), PyDelete(nms, PyPos(nms, index)))

TabsRemove(objs, nms, pane) ==
  IF pane \notin Range(objs) THEN TabRaise("ValueError", nms)
  ELSE IF PyPos(nms, PyIndex(objs, pane)) = -1 THEN TabRaise("IndexError", nms)
  ELSE TabOk(PyDelete(objs, PyIndex(objs, pane)), PyDelete(nms, PyIndex(objs, pane)))

\* reverse that leaves the labels where they were
TabsReverseKeepsNames(objs, nms) == TabOk(PyReverse(objs), nms)

TabsReverse(objs, nms) == TabOk(PyReverse(objs), PyReverse(nms))

\* for i, pane in zip(range(start, end), panes):
\*     new_objects[i], self._names[i] = self._to_object_and_name(pane)
RECURSIVE SetLoop(_, _, _, _, _, _)
SetLoop(objs, nms, i, end, items, fresh) ==
  IF i >= end \/ items = <<>> THEN TabOk(objs, nms)
  ELSE LET new == ToObjectAndName(Head(items), fresh)
       IN  IF PyPos(objs, i) = -1 THEN TabRaise("IndexError", nms)
           ELSE IF PyPos(nms, i) = -1 THEN TabRaise("IndexError", nms)
           ELSE SetLoop([objs EXCEPT ![PyPos(objs, i) + 1] = new.pane],
                        [nms EXCEPT ![PyPos(nms, i) + 1] = new.name],
                        i + 1, end, Tail(items),
                        IF IsRaw(Head(items).item) THEN fresh + 1 ELSE fresh)

\* Tabs.__setitem__ with an int index
TabsSetIndex(objs, nms, index, item, fresh) ==
  IF index > Len(objs) THEN TabRaise("IndexError", nms)
  ELSE SetLoop(objs, nms, index, index + 1, <<item>>, fresh)

\* a slice assignment that counts the items after it has stored them
TabsSetSliceChecksLast(objs, nms, start, stop, rhs, fresh) ==
  LET first == IF start = None THEN 0 ELSE start
      end == IF stop = None THEN Len(objs) ELSE stop
  IN  IF start = None /\ stop = None
      THEN IF ~rhs.list THEN TabRaise("IndexError", nms)
           ELSE SetLoop(Nones(Len(rhs.items)), Nones(Len(rhs.items)),
                        first, Len(rhs.items), rhs.items, fresh)
      ELSE IF end > Len(objs) THEN TabRaise("IndexError", nms)
      ELSE IF ~rhs.list \/ Len(rhs.items) # end - first
           THEN TabRaise("IndexError", SetLoop(objs, nms, first, end, rhs.items, fresh).names)
      ELSE SetLoop(objs, nms, first, end, rhs.items, fresh)

\* Tabs.__setitem__ with slice(start, stop); rhs.list tells a list from
\* anything else
TabsSetSlice(objs, nms, start, stop, rhs, fresh) ==
  LET first == IF start = None THEN 0 ELSE start
      end == IF stop = None THEN Len(objs) ELSE stop
  IN  IF start = None /\ stop = None
      THEN IF ~rhs.list THEN TabRaise("IndexError", nms)
           ELSE SetLoop(Nones(Len(rhs.items)), Nones(Len(rhs.items)),
                        first, Len(rhs.items), rhs.items, fresh)
      ELSE IF end > Len(objs) THEN TabRaise("IndexError", nms)
      ELSE IF ~rhs.list \/ Len(rhs.items) # end - first THEN TabRaise("IndexError", nms)
      ELSE SetLoop(objs, nms, first, end, rhs.items, fresh)

\* ------------------------------------------------------ the Tabs container
MaxTabExtend == 2

TabExtendArgs == UNION {[1..n -> TabItems] : n \in 0..MaxTabExtend}
\* right-hand sides of a slice assignment: lists, and one thing that is no list
SliceItems == {[name |-> "X", item |-> "B"], [name |-> "none", item |-> "A"]}
SliceRhs == {[list |-> TRUE, items |-> q] : q \in TabExtendArgs \cap Seq(SliceItems)}
              \cup {[list |-> FALSE, items |-> <<>>]}
SliceBounds(s) == {None} \cup (-1..(Len(s) + 1))

\* the same positions assigned in a plain list of (Component, label)
RECURSIVE PlainSetLoop(_, _, _, _, _)
PlainSetLoop(s, i, end, items, fresh) ==
  IF i >= end \/ items = <<>> THEN s
  ELSE LET new == ToObjectAndName(Head(items), fresh)
       IN  PlainSetLoop([s EXCEPT ![IF i >= 0 THEN i + 1 ELSE i + Len(s) + 1]
                                     = <<new.pane, new.name>>],
                        i + 1, end, Tail(items),
                        IF IsRaw(Head(items).item) THEN fresh + 1 ELSE fresh)

Zip(objs, nms) == [i \in 1..Len(objs) |-> <<objs[i], nms[i]>>]

\* One call of a Tabs method. Its in-place edits of _names stay whether it
\* raises or not; every assignment to objects runs the watcher _update_names.
RECURSIVE TabsAssign(_, _, _, _)
TabsAssign(nms, cur, assigns, k) ==
  IF k > Len(assigns) THEN nms
  ELSE TabsAssign(UpdateNames(nms, cur, assigns[k]), assigns[k], assigns, k + 1)

MaxTabNodes == 4

\* the BkPanel(title=name, child=child) a Tabs wraps every child node in
Titled(nms, nodes) == [i \in 1..Len(nodes) |-> [title |-> nms[i], child |-> nodes[i]]]

\* a _get_objects that looks at the names after the children
TabsGetObjectsChecksLast(objs, nms, old, r, model, led, next) ==
  LET g == GetObjects(objs, old, r, model, led, next)
  IN  IF Len(nms) # Len(objs) THEN [g EXCEPT !.err = "ValueError"]
      ELSE [g EXCEPT !.models = Titled(nms, g.models)]

\* Tabs._get_objects: the names are checked, then the children are reused,
\* materialized and cleaned up as Panel._get_objects does
TabsGetObjects(objs, nms, old, r, model, led, next) ==
  IF Len(nms) # Len(objs)
  THEN [models |-> <<>>, led |-> led, next |-> next, err |-> "ValueError",
        cleaned |-> <<>>]
  ELSE LET g == GetObjects(objs, old, r, model, led, next)
       IN  [g EXCEPT !.models = Titled(nms, g.models)]

\* Panel._update_model of the Tabs for root r
TabsUpdateModel(st, objs, nms, old, r) ==
  LET g == TabsGetObjects(objs, nms, old, r, st.own[r].node, st.led, st.next)
  IN  IF g.err # "none"
      THEN [st EXCEPT !.led = g.led, !.next = g.next, !.err = g.err]
      ELSE [st EXCEPT !.led = g.led, !.next = g.next, !.children[r] = g.models]

\* the objects event, delivered after _update_names to every root's handler
RECURSIVE TabsDispatch(_, _, _, _, _)
TabsDispatch(st, objs, nms, old, k) ==
  IF k > Len(RootOrder) \/ st.err # "none" THEN st
  ELSE TabsDispatch(IF st.own[RootOrder[k]] = Absent THEN st
                    ELSE TabsUpdateModel(st, objs, nms, old, RootOrder[k]),
                    objs, nms, old, k + 1)

\* Panel._get_model of a Tabs displayed as the root r
TabsGetModel(st, objs, nms, r) ==
  LET model == [id |-> st.next, of |-> "tabs"]
      g == TabsGetObjects(objs, nms, <<>>, r, model, st.led, st.next + 1)
  IN  IF g.err # "none" THEN [st EXCEPT !.led = g.led, !.next = g.next, !.err = g.err]
      ELSE [st EXCEPT !.led = g.led, !.next = g.next,
                      !.children[r] = g.models,
                      !.own[r] = [node |-> model, parent |-> NoNode]]

\* the display of the Tabs as st leaves it
TabsShown(st) ==
  /\ st.next <= MaxTabNodes + 1
  /\ tled' = st.led
  /\ town' = st.own
  /\ tshown' = st.children
  /\ tnextNode' = st.next

TabsCallArgs(op, res, used, plain, a) ==
  /\ UNCHANGED exceptTabs
  /\ args' = a
  /\ IF res.err # "none"
     THEN /\ names' = res.names
          /\ tcall' = [op |-> op, err |-> res.err]
          /\ UNCHANGED <<tobjects, tnextPane, tref, tabsShowVars>>
     ELSE \E new \in {res.assigns[Len(res.assigns)]} :
            /\ Len(new) <= MaxTabs
            /\ tnextPane + used <= MaxTabPanes + 1
            /\ tobjects' = new
            /\ names' = TabsAssign(res.names, tobjects, res.assigns, 1)
            /\ tnextPane' = tnextPane + used
            /\ tref' = plain
            /\ \E st \in {TabsDispatch(Start(tled, town, tshown, tnextNode),
                                       new, names', tobjects, 1)} :
                  /\ TabsShown(st)
                  /\ tcall' = [op |-> op, err |-> st.err]

TabsCall(op, res, used, plain) == TabsCallArgs(op, res, used, plain, NoArgs)

Pair(item, fresh) ==
  <<ToObjectAndName(item, fresh).pane, ToObjectAndName(item, fresh).name>>

TabAppend(item) ==
  TabsCall("append", TabsAppend(tobjects, names, item, tnextPane),
           Uses(item.item), tref \o <<Pair(item, tnextPane)>>)

TabClear == TabsCall("clear", TabsClear(tobjects, names), 0, <<>>)

TabExtend(items) ==
  TabsCall("extend", TabsExtend(tobjects, names, items, tnextPane), RawItems(items),
           tref \o Zip(ToObjectsAndNames(items, tnextPane).objects,
                       ToObjectsAndNames(items, tnextPane).names))

TabInsert(index, item) ==
  TabsCall("insert", TabsInsert(tobjects, names, index, item, tnextPane),
           Uses(item.item), PlainInsert(tref, index, Pair(item, tnextPane)))

TabPopIndex(index) ==
  TabsCall("pop", TabsPop(tobjects, names, [idx |-> index]), 0, PlainPop(tref, index))

TabPopObject(pane) ==
  TabsCall("pop", TabsPop(tobjects, names, [obj |-> pane]), 0,
           PlainPop(tref, PyIndex(tobjects, pane)))

TabRemove(pane) ==
  TabsCall("remove", TabsRemove(tobjects, names, pane), 0,
           PlainPop(tref, PyIndex(tobjects, pane)))

TabReverse == TabsCall("reverse", TabsReverse(tobjects, names), 0, PlainReverse(tref))

TabSetIndex(index, item) ==
  TabsCall("setitem", TabsSetIndex(tobjects, names, index, item, tnextPane),
           Uses(item.item), PlainSetLoop(tref, index, index + 1, <<item>>, tnextPane))

TabSetSlice(start, stop, rhs) ==
  TabsCall("setslice", TabsSetSlice(tobjects, names, start, stop, rhs, tnextPane),
           RawItems(rhs.items),
           IF start = None /\ stop = None
           THEN PlainSetLoop([i \in 1..Len(rhs.items) |-> <<"None", "None">>],
                             0, Len(rhs.items), rhs.items, tnextPane)
           ELSE PlainSetLoop(tref, IF start = None THEN 0 ELSE start,
                             IF stop = None THEN Len(tref) ELSE stop,
                             rhs.items, tnextPane))

\* tabs.objects = new: the collection is replaced without any method
TabAssign(new) ==
  /\ tobjects' = new
  /\ names' = UpdateNames(names, tobjects, new)
  /\ tref' = Zip(new, names')
  /\ \E st \in {TabsDispatch(Start(tled, town, tshown, tnextNode),
                             new, names', tobjects, 1)} :
        /\ TabsShown(st)
        /\ tcall' = [op |-> "assign", err |-> st.err]
  /\ UNCHANGED tnextPane
  /\ UNCHANGED <<exceptTabs, argVars>>

AssignArgs == UNION {[1..n -> TabViewables \cup {PaneIds[i] : i \in 1..(tnextPane - 1)}]
                       : n \in 0..MaxTabs}

\* the Tabs is displayed: tabs._get_model(doc) makes the root r
TabShow(r) ==
  /\ town[r] = Absent
  /\ \E st \in {TabsGetModel(Start(tled, town, tshown, tnextNode), tobjects, names, r)} :
        /\ TabsShown(st)
        /\ tcall' = [op |-> "materialize", err |-> st.err]
  /\ UNCHANGED <<tobjects, names, tnextPane, tref>>
  /\ UNCHANGED <<exceptTabs, argVars>>

\* tabs.objects.append(pane) and tabs.objects.pop(): the list is changed in
\* place, outside the methods of the Tabs, so no event is raised
TabInPlaceAppend(pane) ==
  /\ Len(tobjects) < MaxTabs
  /\ tobjects' = Append(tobjects, pane)
  /\ tcall' = [op |-> "inplace", err |-> "none"]
  /\ UNCHANGED <<names, tnextPane, tref, tabsShowVars>>
  /\ UNCHANGED <<exceptTabs, argVars>>

TabInPlacePop ==
  /\ tobjects # <<>>
  /\ tobjects' = SubSeq(tobjects, 1, Len(tobjects) - 1)
  /\ tcall' = [op |-> "inplace", err |-> "none"]
  /\ UNCHANGED <<names, tnextPane, tref, tabsShowVars>>
  /\ UNCHANGED <<exceptTabs, argVars>>

TabsInit ==
  /\ tled = [c \in TabComps |-> [r \in Roots |-> Absent]]
  /\ town = [r \in Roots |-> Absent]
  /\ tshown = [r \in Roots |-> <<>>]
  /\ tnextNode = 1
  /\ tobjects = <<>>
  /\ names = <<>>
  /\ tnextPane = 1
  /\ tref = <<>>
  /\ tcall = [op |-> "init", err |-> "none"]

TabsMethods ==
  \/ \E item \in TabItems : TabAppend(item)
  \/ TabClear
  \/ \E items \in TabExtendArgs : TabExtend(items)
  \/ \E index \in Indexes(tobjects), item \in TabItems : TabInsert(index, item)
  \/ \E index \in Indexes(tobjects) : TabPopIndex(index)
  \/ \E pane \in TabComps : TabPopObject(pane)
  \/ \E pane \in TabComps : TabRemove(pane)
  \/ TabReverse
  \/ \E index \in Indexes(tobjects), item \in TabItems : TabSetIndex(index, item)
  \/ \E start \in SliceBounds(tobjects), stop \in SliceBounds(tobjects), rhs \in SliceRhs :
        TabSetSlice(start, stop, rhs)

\* the methods that add, drop or move one child at a time, and the direct
\* assignment of the whole collection
TabsNext ==
  \/ \E item \in TabItems : TabAppend(item)
  \/ \E index \in Indexes(tobjects), item \in TabItems : TabInsert(index, item)
  \/ \E index \in Indexes(tobjects) : TabPopIndex(index)
  \/ \E pane \in TabComps : TabRemove(pane)
  \/ TabReverse
  \/ \E new \in AssignArgs : TabAssign(new)

\* the indexed calls of a Tabs, with their arguments recorded in args
TabSetIndexAt(index, item) ==
  TabsCallArgs("setitem", TabsSetIndex(tobjects, names, index, item, tnextPane),
               Uses(item.item), PlainSetLoop(tref, index, index + 1, <<item>>, tnextPane),
               [kind |-> "index", index |-> index, pane |-> item])

TabPopAt(index) ==
  TabsCallArgs("pop", TabsPop(tobjects, names, [idx |-> index]), 0, PlainPop(tref, index),
               [kind |-> "pop", arg |-> [idx |-> index]])

TabPopObjectAt(pane) ==
  TabsCallArgs("pop", TabsPop(tobjects, names, [obj |-> pane]), 0,
               PlainPop(tref, PyIndex(tobjects, pane)),
               [kind |-> "pop", arg |-> [obj |-> pane]])

\* A displayed Tabs: its methods are called while _names and objects are in
\* step; the list may be changed in place and the Tabs displayed again.
InStep == Len(names) = Len(tobjects)

ShowItems == {[name |-> "none", item |-> v] : v \in TabViewables}

TabsShowNext ==
  \/ \E item \in ShowItems : InStep /\ TabAppend(item)
  \/ \E index \in Indexes(tobjects) : InStep /\ TabPopIndex(index)
  \/ \E pane \in TabViewables : TabInPlaceAppend(pane)
  \/ TabInPlacePop
  \/ \E r \in Roots : TabShow(r)

\* =============================================================== GridSpec
MaxRegions == 2
MaxRowStart == 2
MaxRowStop == 3
MaxColStart == 1
MaxColStop == 2
MaxInt == 0

\* A region key is the tuple (y0, x0, y1, x1); an open bound is None.
Y0(key) == key[1]
X0(key) == key[2]
Y1(key) == key[3]
X1(key) == key[4]

Max(S) == CHOOSE m \in S : \A n \in S : n <= m
Min(S) == CHOOSE m \in S : \A n \in S : m <= n

\* the keys of the ordered dict objects, a sequence of (key, obj) items
GridKeys(objs) == {objs[i].key : i \in 1..Len(objs)}

nrows(objs) ==
  LET max_yidx == {Y1(k) : k \in GridKeys(objs)} \ {None}
  IN  IF max_yidx = {} THEN 0 ELSE Max(max_yidx)

ncols(objs) ==
  LET max_xidx == {X1(k) : k \in GridKeys(objs)} \ {None}
  IN  IF max_xidx = {} THEN 0 ELSE Max(max_xidx)

xoffset(objs) ==
  LET min_xidx == {X0(k) : k \in GridKeys(objs)} \ {None}
  IN  IF min_xidx # {} /\ (\A k \in GridKeys(objs) : X0(k) # None)
      THEN Min(min_xidx) ELSE 0

yoffset(objs) ==
  LET min_yidx == {Y0(k) : k \in GridKeys(objs)} \ {None}
  IN  IF min_yidx # {} /\ (\A k \in GridKeys(objs) : Y0(k) # None)
      THEN Min(min_yidx) ELSE 0

Cells(nr, nc) == (0..(nr - 1)) \X (0..(nc - 1))

\* the cells of an nr x nc array in the order of flatten() and np.where()
RowMajor(nr, nc) == [p \in 1..(nr * nc) |-> <<(p - 1) \div nc, (p - 1) % nc>>]

\* array[t:b, l:r] of an array of nr x nc cells: the slice is clipped
InSlice(cell, t, b, l, r) ==
  /\ t <= cell[1] /\ cell[1] < b
  /\ l <= cell[2] /\ cell[2] < r

\* the occupancy counts, uint8: an open end is the extent of its own axis
Counts(objs, nr, nc) ==
  [cell \in Cells(nr, nc) |->
     Cardinality({i \in 1..Len(objs) :
        InSlice(cell,
                IF Y0(objs[i].key) = None THEN 0 ELSE Y0(objs[i].key),
                IF Y1(objs[i].key) = None THEN nr ELSE Y1(objs[i].key),
                IF X0(objs[i].key) = None THEN 0 ELSE X0(objs[i].key),
                IF X1(objs[i].key) = None THEN nc ELSE X1(objs[i].key))})
       % 256]

grid(objs) == Counts(objs, nrows(objs), ncols(objs))

\* l, r, t, b as __getitem__ and __setitem__ resolve a key in a grid of nr
\* rows and nc columns: an open column end becomes nrows and an open row
\* end becomes ncols
Left(key) == IF X0(key) = None THEN 0 ELSE X0(key)
Right(key, nr) == IF X1(key) = None THEN nr ELSE X1(key)
Top(key) == IF Y0(key) = None THEN 0 ELSE Y0(key)
Bottom(key, nc) == IF Y1(key) = None THEN nc ELSE Y1(key)

\* __getitem__ fills an array of nrows x ncols cells item by item; writing a
\* cell outside the array raises
FillRaises(objs, nr, nc) ==
  \E i \in 1..Len(objs) :
     /\ Top(objs[i].key) < Bottom(objs[i].key, nc)
     /\ Left(objs[i].key) < Right(objs[i].key, nr)
     /\ \/ Bottom(objs[i].key, nc) > nr
        \/ Right(objs[i].key, nr) > nc

\* the item a filled cell holds, the last one written to it; 0 for None
Owner(objs, cell, nr, nc) ==
  LET hits == {i \in 1..Len(objs) :
                 InSlice(cell, Top(objs[i].key), Bottom(objs[i].key, nc),
                         Left(objs[i].key), Right(objs[i].key, nr))}
  IN  IF hits = {} THEN 0 ELSE Max(hits)

\* the cell (y, x) of the filled array of nr x nc cells
Lookup(objs, y, x, nr, nc) ==
  IF FillRaises(objs, nr, nc) THEN [err |-> "IndexError", obj |-> "none"]
  ELSE IF y >= nr \/ x >= nc THEN [err |-> "IndexError", obj |-> "none"]
  ELSE IF Owner(objs, <<y, x>>, nr, nc) = 0 THEN [err |-> "TypeError", obj |-> "none"]
  ELSE [err |-> "none", obj |-> objs[Owner(objs, <<y, x>>, nr, nc)].obj]

\* grid[y, x] with two ints: the Component that owns the cell
GetItem(objs, y, x) == Lookup(objs, y, x, nrows(objs), ncols(objs))

\* OrderedDict of the items the selected cells hold, in the order of flatten()
RECURSIVE Collect(_, _, _, _, _, _)
Collect(objs, cells, p, acc, nr, nc) ==
  IF p > Len(cells) THEN [err |-> "none", objects |-> acc]
  ELSE IF Owner(objs, cells[p], nr, nc) = 0 THEN [err |-> "TypeError", objects |-> <<>>]
  ELSE Collect(objs, cells, p + 1,
               IF objs[Owner(objs, cells[p], nr, nc)].key \in GridKeys(acc) THEN acc
               ELSE Append(acc, objs[Owner(objs, cells[p], nr, nc)]),
               nr, nc)

Shift(v, off) == IF v = None THEN None ELSE v - off

\* the keys of the extracted grid, re-based by its offsets
Adjusted(picked) ==
  [i \in 1..Len(picked) |->
     [key |-> <<Shift(Y0(picked[i].key), yoffset(picked)),
                Shift(X0(picked[i].key), xoffset(picked)),
                Shift(Y1(picked[i].key), yoffset(picked)),
                Shift(X1(picked[i].key), xoffset(picked))>>,
      obj |-> picked[i].obj]]

\* a slice start:stop of an axis of n cells, as numpy clips it
SliceLo(start, n) == IF start = None THEN 0 ELSE IF start > n THEN n ELSE start
SliceHi(stop, n) == IF stop = None THEN n ELSE IF stop > n THEN n ELSE stop

\* the selection [ys.start:ys.stop, xs.start:xs.stop] of the filled array
Select(objs, ys, xs, nr, nc) ==
  IF FillRaises(objs, nr, nc) THEN [err |-> "IndexError", objects |-> <<>>]
  ELSE Collect(objs,
               SelectSeq(RowMajor(nr, nc),
                         LAMBDA cell : InSlice(cell, SliceLo(ys.start, nr),
                                               SliceHi(ys.stop, nr),
                                               SliceLo(xs.start, nc),
                                               SliceHi(xs.stop, nc))),
               1, <<>>, nr, nc)

\* the new GridSpec: its keys re-based, its sizes scaled by its share of
\* the extent of the grid it is cut from
Extract(picked, nr, nc) ==
  IF picked.err # "none" THEN picked
  ELSE IF nc = 0 \/ nr = 0 THEN [err |-> "ZeroDivisionError", objects |-> <<>>]
  ELSE [err |-> "none", objects |-> Adjusted(picked.objects)]

\* grid[ys.start:ys.stop, xs.start:xs.stop]
GetSlice(objs, ys, xs) ==
  Extract(Select(objs, ys, xs, nrows(objs), ncols(objs)), nrows(objs), ncols(objs))

\* an index of one axis: an int, or a slice with its start and stop
IsInt(idx) == idx.int
Lower(idx) == IF IsInt(idx) THEN idx.at ELSE idx.start
Upper(idx) == IF IsInt(idx) THEN idx.at + 1 ELSE idx.stop
KeyOf(yidx, xidx) == <<Lower(yidx), Lower(xidx), Upper(yidx), Upper(xidx)>>

\* the tentative insertion that is kept although it overlaps
RollbackKeeps(objs, key) == objs

\* self.objects.pop(key)
Rollback(objs, key) == SelectSeq(objs, LAMBDA item : item.key # key)

\* the loop that looks up the owner of every overlapping cell, and the raise
RECURSIVE Report(_, _, _)
Report(objs, cells, p) ==
  IF p > Len(cells) THEN "OverlapError"
  ELSE IF GetItem(objs, cells[p][1], cells[p][2]).err # "none"
  THEN GetItem(objs, cells[p][1], cells[p][2]).err
  ELSE Report(objs, cells, p + 1)

\* the occupancy counts __setitem__ looks at: of the grid with the new item,
\* or, when the key is stored already, of the grid with its region counted again
Tentative(objs, key, overlap, nr, nc) ==
  IF overlap
  THEN [cell \in Cells(nr, nc) |->
          IF InSlice(cell, Top(key), Bottom(key, nc), Left(key), Right(key, nr))
          THEN (Counts(objs, nr, nc)[cell] + 1) % 256
          ELSE Counts(objs, nr, nc)[cell]]
  ELSE Counts(objs, nr, nc)

\* the cells of np.where(grid > 1)
Overlapping(counts, nr, nc) ==
  SelectSeq(RowMajor(nr, nc), LAMBDA cell : counts[cell] > 1)

\* the end of __setitem__
Check(added, kept, over) ==
  IF over # <<>>
  THEN [err |-> Report(kept, over, 1), objects |-> kept]
  ELSE [err |-> "none", objects |-> added]

Store(objs, key, obj, overlap) ==
  IF overlap THEN objs ELSE Append(objs, [key |-> key, obj |-> obj])

Place(objs, key, added, overlap) ==
  Check(added, IF overlap THEN added ELSE Rollback(added, key),
        Overlapping(Tentative(added, key, overlap, nrows(added), ncols(added)),
                    nrows(added), ncols(added)))

\* grid[yidx, xidx] = obj
SetItem(objs, yidx, xidx, obj) ==
  Place(objs, KeyOf(yidx, xidx),
        Store(objs, KeyOf(yidx, xidx), obj, KeyOf(yidx, xidx) \in GridKeys(objs)),
        KeyOf(yidx, xidx) \in GridKeys(objs))

\* the objects list the loop of lines 633-637 has built when it ends or raises
RECURSIVE ReportLoop(_, _, _, _)
ReportLoop(objs, cells, p, seen) ==
  IF p > Len(cells) THEN seen
  ELSE LET found == GetItem(objs, cells[p][1], cells[p][2])
       IN  IF found.err # "none" THEN seen
           ELSE ReportLoop(objs, cells, p + 1,
                           IF found.obj \in Range(seen) THEN seen ELSE Append(seen, found.obj))

\* the Components the error of grid[yidx, xidx] = obj names
Reported(objs, yidx, xidx, obj) ==
  LET key == KeyOf(yidx, xidx)
      overlap == key \in GridKeys(objs)
      added == Store(objs, key, obj, overlap)
  IN  ReportLoop(IF overlap THEN added ELSE Rollback(added, key),
                 Overlapping(Tentative(added, key, overlap, nrows(added), ncols(added)),
                             nrows(added), ncols(added)),
                 1, <<>>)

\* ------------------------------------------------------------ the grid
GridContents == <<"A", "B", "C", "D">>
RowStarts == 0..MaxRowStart
RowStops == {None} \cup (1..MaxRowStop)
ColStarts == 0..MaxColStart
ColStops == {None} \cup (1..MaxColStop)
Ints == 0..MaxInt
AxisIndexes(starts, stops) ==
  [int : {FALSE}, start : starts, stop : stops] \cup [int : {TRUE}, at : Ints]
\* the selections [0:r, 0:c] inside the extent of the grid
Selections(n) == [start : {0}, stop : 1..n]

\* the two rectangles of cells, with open ends at the extents nr and nc
RectsMeet(k1, k2, nr, nc) ==
  \E cell \in Cells(nr, nc) :
     /\ InSlice(cell, IF Y0(k1) = None THEN 0 ELSE Y0(k1),
                IF Y1(k1) = None THEN nr ELSE Y1(k1),
                IF X0(k1) = None THEN 0 ELSE X0(k1),
                IF X1(k1) = None THEN nc ELSE X1(k1))
     /\ InSlice(cell, IF Y0(k2) = None THEN 0 ELSE Y0(k2),
                IF Y1(k2) = None THEN nr ELSE Y1(k2),
                IF X0(k2) = None THEN 0 ELSE X0(k2),
                IF X1(k2) = None THEN nc ELSE X1(k2))

\* the region asked for meets a region stored under another key, in the
\* grid as large as it is with the region asked for
Intersects(objs, key) ==
  LET tentative == Append(objs, [key |-> key, obj |-> "none"])
  IN  \E k \in GridKeys(objs) \ {key} : RectsMeet(key, k, nrows(tentative), ncols(tentative))

NoSub == [op |-> "none", err |-> "none", rows |-> 0, cols |-> 0, objects |-> <<>>]

\* One region assignment. The content assigned is a Component the grid does
\* not hold yet. The grid is sliced once it is built.
GridSetItem(yidx, xidx) ==
  /\ gsub = NoSub
  /\ \E res \in {SetItem(gobjects, yidx, xidx, GridContents[Len(gobjects) + 1])} :
        /\ Len(res.objects) <= MaxRegions
        /\ gobjects' = res.objects
        /\ gcall' = [op |-> "setitem", err |-> res.err,
                     fresh |-> KeyOf(yidx, xidx) \notin GridKeys(gobjects),
                     hit |-> Intersects(gobjects, KeyOf(yidx, xidx))]
  /\ UNCHANGED gsub
  /\ UNCHANGED <<exceptGrid, argVars, gridShowVars>>

\* grid[0:r, 0:c]: the grid itself is only read
GridGetSlice(ys, xs) ==
  /\ \E res \in {GetSlice(gobjects, ys, xs)} :
        gsub' = [op |-> "getitem", err |-> res.err, rows |-> ys.stop,
                 cols |-> xs.stop, objects |-> res.objects]
  /\ UNCHANGED <<gobjects, gcall>>
  /\ UNCHANGED <<exceptGrid, argVars, gridShowVars>>

\* ------------------------------------------------- the displayed grid
MaxGridNodes == 6

GridValues(objs) == [i \in 1..Len(objs) |-> objs[i].obj]

\* the loop of GridSpec._get_objects; acc.parent is the variable model, which
\* the loop assigns every child's node to
RECURSIVE GridNewModels(_, _, _, _)
GridNewModels(objs, r, i, acc) ==
  IF i > Len(objs) THEN acc
  ELSE LET key == objs[i].key
           x0 == IF X0(key) = None THEN 0 ELSE X0(key)
           x1 == IF X1(key) = None THEN ncols(objs) ELSE X1(key)
           y0 == IF Y0(key) = None THEN 0 ELSE Y0(key)
           y1 == IF Y1(key) = None THEN nrows(objs) ELSE Y1(key)
           made == LeafGetModel(acc, objs[i].obj, r, acc.parent)
           node == made.led[objs[i].obj][r].node
       IN  GridNewModels(objs, r, i + 1,
             [made EXCEPT !.parent = node,
                          !.models = Append(acc.models,
                             [model |-> node, r |-> y0, c |-> x0,
                              h |-> y1 - y0, w |-> x1 - x0])])

\* GridSpec._get_objects(model, old_objects, doc, root)
GridGetObjects(objs, old, r, model, led, next) ==
  IF ncols(objs) = 0 \/ nrows(objs) = 0
  THEN [models |-> <<>>, led |-> led, next |-> next, err |-> "ZeroDivisionError",
        cleaned |-> <<>>, parent |-> model]
  ELSE CleanupLoop(GridValues(objs), GridValues(old), r, 1,
         GridNewModels(objs, r, 1,
           [models |-> <<>>, led |-> led, next |-> next, err |-> "none",
            cleaned |-> <<>>, parent |-> model]))

\* Panel._update_model of the grid for root r
GridUpdateModel(st, objs, old, r) ==
  LET g == GridGetObjects(objs, old, r, st.own[r].node, st.led, st.next)
  IN  IF g.err # "none"
      THEN [st EXCEPT !.led = g.led, !.next = g.next, !.err = g.err]
      ELSE [st EXCEPT !.led = g.led, !.next = g.next, !.children[r] = g.models]

RECURSIVE GridDispatch(_, _, _, _)
GridDispatch(st, objs, old, k) ==
  IF k > Len(RootOrder) \/ st.err # "none" THEN st
  ELSE GridDispatch(IF st.own[RootOrder[k]] = Absent THEN st
                    ELSE GridUpdateModel(st, objs, old, RootOrder[k]),
                    objs, old, k + 1)

\* Panel._get_model of a GridSpec displayed as the root r
GridGetModel(st, objs, r) ==
  LET model == [id |-> st.next, of |-> "grid"]
      g == GridGetObjects(objs, <<>>, r, model, st.led, st.next + 1)
  IN  IF g.err # "none" THEN [st EXCEPT !.led = g.led, !.next = g.next, !.err = g.err]
      ELSE [st EXCEPT !.led = g.led, !.next = g.next,
                      !.children[r] = g.models,
                      !.own[r] = [node |-> model, parent |-> NoNode]]

GridShown(op, st) ==
  /\ st.next <= MaxGridNodes + 1
  /\ gled' = st.led
  /\ gown' = st.own
  /\ gshown' = st.children
  /\ gnextNode' = st.next
  /\ gcall' = [op |-> op, err |-> st.err, fresh |-> TRUE, hit |-> FALSE]
  /\ UNCHANGED gsub
  /\ UNCHANGED <<exceptGrid, argVars>>

\* the grid is displayed: grid._get_model(doc) makes the root r
GridShow(r) ==
  /\ gown[r] = Absent
  /\ GridShown("materialize", GridGetModel(Start(gled, gown, gshown, gnextNode), gobjects, r))
  /\ UNCHANGED gobjects

\* grid.objects = new: the mapping is replaced and the event dispatched
GridAssign(new) ==
  /\ new # gobjects
  /\ gobjects' = new
  /\ GridShown("assign", GridDispatch(Start(gled, gown, gshown, gnextNode), new, gobjects, 1))

\* the mappings assigned: A, B, C in the cells of one row, no cell twice
GridCells == {<<0, 0, 1, 1>>, <<0, 1, 1, 2>>}
GridComps == {"A", "B", "C"}
GridMappings ==
  {q \in UNION {[1..n -> [key : GridCells, obj : GridComps]] : n \in 0..2} :
     \A i \in 1..Len(q) : \A j \in 1..Len(q) :
        i # j => q[i].key # q[j].key /\ q[i].obj # q[j].obj}

GridShowNext ==
  \/ \E r \in Roots : GridShow(r)
  \/ \E new \in GridMappings : GridAssign(new)

\* A displayed grid filled by region assignments: __setitem__ stores the
\* content in the dict objects holds (line 620), it assigns nothing to the
\* parameter, so GridSetItem leaves the nodes of every root as they are.
PlaceRows == AxisIndexes({0}, {None, 1})
PlaceCols == AxisIndexes(0..1, {None, 1, 2})

GridPlaceNext ==
  \/ \E r \in Roots : GridShow(r)
  \/ \E yidx \in PlaceRows, xidx \in PlaceCols : GridSetItem(yidx, xidx)

GridInit ==
  /\ gled = [c \in GridComps |-> [r \in Roots |-> Absent]]
  /\ gown = [r \in Roots |-> Absent]
  /\ gshown = [r \in Roots |-> <<>>]
  /\ gnextNode = 1
  /\ gobjects = <<>>
  /\ gcall = [op |-> "init", err |-> "none", fresh |-> TRUE, hit |-> FALSE]
  /\ gsub = NoSub

GridNext ==
  \E yidx \in AxisIndexes(RowStarts, RowStops),
        xidx \in AxisIndexes(ColStarts, ColStops) :
        GridSetItem(yidx, xidx)

GridSliceNext ==
  \/ \E yidx \in AxisIndexes(RowStarts, RowStops),
        xidx \in AxisIndexes(ColStarts, ColStops) :
        GridSetItem(yidx, xidx)
  \/ \E ys \in Selections(nrows(gobjects)), xs \in Selections(ncols(gobjects)) :
        GridGetSlice(ys, xs)

\* ===================================================== the specifications
Init == ListInit /\ TabsInit /\ GridInit /\ NestInit /\ args = NoArgs

\* a Row displayed under a root and mutated through its methods
SpecList == Init /\ [][ListNext]_vars

\* a Tabs container mutated through its label-aware methods only
SpecTabs == Init /\ [][TabsMethods]_vars

\* a Tabs container whose objects are also assigned directly
SpecTabsAssign == Init /\ [][TabsNext]_vars

\* a GridSpec filled by region assignments
SpecGrid == Init /\ [][GridNext]_vars

\* a GridSpec filled by region assignments and then sliced
SpecGridSlice == Init /\ [][GridSliceNext]_vars

\* Indexed calls on one container, a list-based one or a Tabs: the other
\* container of the behaviour is never called.
ListIdle == call.op = "init"
TabsIdle == tcall.op = "init"

IndexContents == {"A", "B", "raw"}

IndexNext ==
  \/ \E pane \in IndexContents : TabsIdle /\ DoAppend(pane)
  \/ \E index \in Indexes(objects), pane \in IndexContents : TabsIdle /\ SetIndexAt(index, pane)
  \/ \E start \in IndexSliceBounds(objects), stop \in IndexSliceBounds(objects),
        rhs \in ListSliceRhs : TabsIdle /\ SetSliceAt(start, stop, rhs)
  \/ \E index \in Indexes(objects) : TabsIdle /\ PopAt(index)
  \/ \E pane \in Comps : TabsIdle /\ PopObject(pane)
  \/ \E item \in TabItems : ListIdle /\ TabAppend(item)
  \/ \E index \in Indexes(tobjects), item \in TabItems : ListIdle /\ TabSetIndexAt(index, item)
  \/ \E index \in Indexes(tobjects) : ListIdle /\ TabPopAt(index)
  \/ \E pane \in TabComps : ListIdle /\ TabPopObjectAt(pane)

SpecIndex == Init /\ [][IndexNext]_vars

SpecNest == Init /\ [][NestNext]_vars

SpecTabsShow == Init /\ [][TabsShowNext]_vars

SpecGridShow == Init /\ [][GridShowNext]_vars

\* a GridSpec displayed while regions are assigned to it
SpecGridPlace == Init /\ [][GridPlaceNext]_vars

\* ============================================================= properties
Count(s, x) == Cardinality({i \in 1..Len(s) : s[i] = x})

ListedCalls == {"append", "insert", "pop", "remove", "reverse", "extend", "setitem"}
MutationCalls == ListedCalls \cup {"clear", "setslice"}

C2_NamesAligned ==
  /\ Len(names) = Len(tobjects)
  /\ Zip(tobjects, names) = tref

\* on an empty Tabs, append(("X", content)) then pop(0): no label is left
C2_Witness ==
  /\ tcall = [op |-> "pop", err |-> "none"]
  /\ tnextPane > 1
  /\ tobjects = <<>>
  /\ names = <<>>

\* C3: after tabs.objects = new, whatever the length of new, every child that
\* was in the old collection carries the label it had there and every other
\* child is labelled with its own name.
C3_AssignResyncs ==
  [][tcall'.op = "assign" =>
        /\ Len(names') = Len(tobjects')
        /\ \A i \in 1..Len(tobjects') :
             names'[i] = IF tobjects'[i] \in Range(tobjects)
                         THEN names[PyIndex(tobjects, tobjects'[i]) + 1]
                         ELSE OwnName(tobjects'[i])]_vars

\* the resolved bounds of a stored key in the grid as large as it is now
RowStart(key) == IF Y0(key) = None THEN 0 ELSE Y0(key)
RowEnd(key) == IF Y1(key) = None THEN nrows(gobjects) ELSE Y1(key)
ColStart(key) == IF X0(key) = None THEN 0 ELSE X0(key)
ColEnd(key) == IF X1(key) = None THEN ncols(gobjects) ELSE X1(key)

\* C4: after every region assignment, raised or not, no two stored keys
\* cover a common cell when their open ends are resolved against the
\* current nrows and ncols.
C4_NoTwoKeysOverlap ==
  \A i \in 1..Len(gobjects) : \A j \in 1..Len(gobjects) :
     i # j => \/ RowEnd(gobjects[i].key) <= RowStart(gobjects[j].key)
              \/ RowEnd(gobjects[j].key) <= RowStart(gobjects[i].key)
              \/ ColEnd(gobjects[i].key) <= ColStart(gobjects[j].key)
              \/ ColEnd(gobjects[j].key) <= ColStart(gobjects[i].key)
              \/ RowEnd(gobjects[i].key) <= RowStart(gobjects[i].key)
              \/ ColEnd(gobjects[i].key) <= ColStart(gobjects[i].key)
              \/ RowEnd(gobjects[j].key) <= RowStart(gobjects[j].key)
              \/ ColEnd(gobjects[j].key) <= ColStart(gobjects[j].key)

\* grid[0:, 0:1] = A; grid[0:2, 1:2] = B; then grid[0:1, 0:1] = C is refused
C4_Witness ==
  /\ gobjects = <<[key |-> <<0, 0, None, 1>>, obj |-> "A"],
                  [key |-> <<0, 1, 2, 2>>, obj |-> "B"]>>
  /\ gcall = [op |-> "setitem", err |-> "OverlapError", fresh |-> TRUE, hit |-> TRUE]

\* C5: an assignment under a key that is not stored raises the overlap
\* error and leaves objects as they were when its region meets a stored
\* region; otherwise it raises nothing and adds exactly one item, the new key.
C5_OverlapRejectedElseStored ==
  [][(gcall'.op = "setitem" /\ gcall'.fresh) =>
        IF gcall'.hit
        THEN gcall'.err = "OverlapError" /\ gobjects' = gobjects
        ELSE /\ gcall'.err = "none"
             /\ Len(gobjects') = Len(gobjects) + 1
             /\ SubSeq(gobjects', 1, Len(gobjects)) = gobjects
             /\ gobjects'[Len(gobjects')].key \notin GridKeys(gobjects)]_vars

\* C6: an assignment under a key that is stored already always raises the
\* overlap error and leaves objects as they were.
C6_SameKeyAlwaysRaises ==
  [][(gcall'.op = "setitem" /\ ~gcall'.fresh) =>
        gcall'.err = "OverlapError" /\ gobjects' = gobjects]_vars

\* C7: every stored key has row_start < row_end and col_start < col_end
\* once its open ends are resolved against the current nrows and ncols.
C7_StoredSpansNonEmpty ==
  \A i \in 1..Len(gobjects) :
     /\ RowStart(gobjects[i].key) < RowEnd(gobjects[i].key)
     /\ ColStart(gobjects[i].key) < ColEnd(gobjects[i].key)

\* every cell of the grid is covered by a stored region
Occupied ==
  /\ nrows(gobjects) > 0
  /\ ncols(gobjects) > 0
  /\ \A cell \in Cells(nrows(gobjects), ncols(gobjects)) : grid(gobjects)[cell] = 1

\* C8: for a grid whose regions occupy all its rows and columns, the
\* selection [0:r, 0:c] is a new grid with nrows = r and ncols = c whose
\* smallest row and column starts are 0.
C8_ExtractionIsProjection ==
  (gsub.op = "getitem" /\ Occupied) =>
     /\ gsub.err = "none"
     /\ nrows(gsub.objects) = gsub.rows
     /\ ncols(gsub.objects) = gsub.cols
     /\ \E k \in GridKeys(gsub.objects) : Y0(k) \in {0, None}
     /\ \E k \in GridKeys(gsub.objects) : X0(k) \in {0, None}
     /\ \A k \in GridKeys(gsub.objects) : Y0(k) = None \/ Y0(k) >= 0
     /\ \A k \in GridKeys(gsub.objects) : X0(k) = None \/ X0(k) >= 0

\* C9: a successful mutation call assigns objects once, so that every root
\* the container is materialized for gets one children update, whose entries
\* are, in order, nodes of the children now in the collection (the child's
\* registered node when the child occurs once).
C9_OneBulkUpdate ==
  [][(call'.op \in MutationCalls /\ call'.err = "none") =>
        /\ call'.assigned = 1
        /\ \A r \in Roots :
             IF own[r] = Absent
             THEN call'.updates[r] = 0
             ELSE /\ call'.updates[r] = 1
                  /\ Len(children'[r]) = Len(objects')
                  /\ \A i \in 1..Len(objects') :
                       /\ children'[r][i].of = objects'[i]
                       /\ Count(objects', objects'[i]) = 1
                            => children'[r][i] = models'[objects'[i]][r].node]_vars

\* Row(A, B) materialized, then insert(1, C): one update with three entries
C9_Witness ==
  /\ objects = <<"A", "C", "B">>
  /\ own[1] # Absent
  /\ call.op = "insert"
  /\ call.assigned = 1
  /\ call.updates[1] = 1
  /\ models["C"][1].node.id > models["B"][1].node.id
  /\ children[1] = <<models["A"][1].node, models["C"][1].node, models["B"][1].node>>

\* C10: the container's length and iteration are those of the plain list the
\* same calls were applied to.
C10_RefinesPlainList ==
  /\ ListLen(objects) = Len(ref)
  /\ ListIter(objects) = ref

\* a Row that holds C, a Pane wrapped by panel() and A, in that order
C10_Witness ==
  /\ ref = <<"C", "pane1", "A">>
  /\ ListIter(objects) = ref
  /\ call.assigned = 1

\* C11: container[i] = content on a list-based container or a Tabs raises
\* IndexError and changes nothing when i >= len (i = len does not append);
\* when 0 <= i < len it replaces the element at position i by the wrapped
\* content and leaves the length and every other position as they were.
C11_IndexAssignment ==
  [][args'.kind = "index" =>
       /\ call'.op = "setitem" =>
            LET i == args'.index
                n == Len(objects)
            IN  /\ i >= n => call'.err = "IndexError" /\ objects' = objects
                /\ (0 <= i /\ i < n) =>
                      /\ call'.err = "none"
                      /\ Len(objects') = n
                      /\ objects'[i + 1] = panel(args'.pane, nextPane)
                      /\ \A k \in 1..n : k # i + 1 => objects'[k] = objects[k]
       /\ tcall'.op = "setitem" =>
            LET i == args'.index
                n == Len(tobjects)
            IN  /\ i >= n => /\ tcall'.err = "IndexError"
                             /\ tobjects' = tobjects
                             /\ names' = names
                /\ (0 <= i /\ i < n) =>
                      /\ tcall'.err = "none"
                      /\ Len(tobjects') = n
                      /\ Len(names') = n
                      /\ tobjects'[i + 1] = panel(args'.pane.item, tnextPane)
                      /\ \A k \in 1..n : k # i + 1 => /\ tobjects'[k] = tobjects[k]
                                                       /\ names'[k] = names[k]]_vars

\* Row(A, A), then row[1] = B replaces the second A
C11_Witness ==
  /\ objects = <<"A", "B">>
  /\ ref = <<"A", "B">>
  /\ args = [kind |-> "index", index |-> 1, pane |-> "B"]
  /\ call.op = "setitem"
  /\ call.err = "none"

\* C12: container[a:b] = rhs on a list-based container. With a bound given
\* (an omitted a is 0, an omitted b the length) the call succeeds exactly
\* when rhs is a list of b - a elements and b <= len; it then replaces
\* positions a..b-1 by the wrapped elements of rhs and keeps the length, and
\* otherwise raises IndexError and changes nothing. With both bounds omitted
\* a list rhs becomes the whole collection, wrapped, and anything else raises.
C12_SliceAssignment ==
  [][(args'.kind = "slice" /\ call'.op = "setslice") =>
       LET n == Len(objects)
           a == IF args'.start = None THEN 0 ELSE args'.start
           b == IF args'.stop = None THEN n ELSE args'.stop
           rhs == args'.rhs
           new == WrapAll(rhs.items, nextPane)
       IN  IF args'.start = None /\ args'.stop = None
           THEN IF rhs.list
                THEN /\ call'.err = "none"
                     /\ objects' = new
                     /\ Len(objects') = Len(rhs.items)
                ELSE call'.err = "IndexError" /\ objects' = objects
           ELSE IF rhs.list /\ Len(rhs.items) = b - a /\ b <= n
                THEN /\ call'.err = "none"
                     /\ Len(objects') = n
                     /\ \A k \in 1..n :
                          objects'[k] = IF a < k /\ k <= b THEN new[k - a] ELSE objects[k]
                ELSE call'.err = "IndexError" /\ objects' = objects]_vars

\* Row(A, B), then row[1:] = [raw]: B gives way to a new Pane
C12_Witness ==
  /\ objects = <<"A", "pane1">>
  /\ args = [kind |-> "slice", start |-> 1, stop |-> None,
              rhs |-> [list |-> TRUE, items |-> <<"raw">>]]
  /\ call.err = "none"

\* C13: pop(x) on a list-based container or a Tabs. When x equals an element
\* the first such element is removed; when x is an index of the collection
\* the element at that index is removed. Exactly one element goes (in a Tabs
\* its label with it) and the others keep their order.
C13_PopByElementOrIndex ==
  [][args'.kind = "pop" =>
       /\ call'.op = "pop" =>
            LET n == Len(objects)
                arg == args'.arg
            IN  IF "obj" \in DOMAIN arg
                THEN arg.obj \in Range(objects) =>
                       /\ call'.err = "none"
                       /\ objects' = PlainRemove(objects, arg.obj)
                ELSE (0 - n <= arg.idx /\ arg.idx < n) =>
                       /\ call'.err = "none"
                       /\ objects' = PlainPop(objects, arg.idx)
       /\ tcall'.op = "pop" =>
            LET n == Len(tobjects)
                arg == args'.arg
            IN  IF "obj" \in DOMAIN arg
                THEN arg.obj \in Range(tobjects) =>
                       /\ tcall'.err = "none"
                       /\ tobjects' = PlainRemove(tobjects, arg.obj)
                       /\ names' = PlainPop(names, PlainFirst(tobjects, arg.obj) - 1)
                ELSE (0 - n <= arg.idx /\ arg.idx < n) =>
                       /\ tcall'.err = "none"
                       /\ tobjects' = PlainPop(tobjects, arg.idx)
                       /\ names' = PlainPop(names, arg.idx)]_vars

\* Row(A, B, A), then pop(A): the first A goes, B and the second A stay
C13_Witness ==
  /\ objects = <<"B", "A">>
  /\ ref = <<"B", "A">>
  /\ args = [kind |-> "pop", arg |-> [obj |-> "A"]]
  /\ call.err = "none"

\* the Components below container c: its children and their children
Below(c, ks) ==
  Range(ks[c]) \cup UNION {Range(ks[d]) : d \in Range(ks[c]) \cap Boxes}

\* the ledgers and pushed children of every root but r are the same in the
\* two states of the reconciliation
SameElsewhere(before, after, r) ==
  \A q \in Roots \ {r} :
     /\ \A c \in NestComps : after.led[c][q] = before.led[c][q]
     /\ \A c \in Boxes : after.shown[c][q] = before.shown[c][q]

\* the state after the handlers of the first k roots have run on an assignment
RECURSIVE Handled(_, _, _, _)
Handled(c, old, k, ks) ==
  IF k = 0 THEN NestStart
  ELSE LET before == Handled(c, old, k - 1, ks)
       IN  IF before.err # "none" \/ before.led[c][RootOrder[k]] = Absent THEN before
           ELSE NestUpdateModel(before, c, old, RootOrder[k], ks)

\* C14: displaying P under a root gives P and every Component below it a
\* ledger entry for that root with a node of its own; displaying, closing a
\* display (_cleanup of one root) and the reconciliation of one root, which
\* disposes the removed children, leave the ledger entries and the pushed
\* children of every other root as they were.
C14_RootsIndependent ==
  [][/\ (ncall'.op = "materialize" /\ ncall'.err = "none") =>
          /\ \A c \in {"P"} \cup Below("P", nkids) :
                /\ nled'[c][ncall'.root] # Absent
                /\ \A q \in Roots \ {ncall'.root} :
                     nled'[c][q] # Absent => nled'[c][q].node # nled'[c][ncall'.root].node
          /\ SameElsewhere([led |-> nled, shown |-> nshown],
                           [led |-> nled', shown |-> nshown'], ncall'.root)
     /\ ncall'.op = "cleanup" =>
          SameElsewhere([led |-> nled, shown |-> nshown],
                        [led |-> nled', shown |-> nshown'], ncall'.root)
     /\ ncall'.op = "assign" =>
          \A k \in 1..Len(RootOrder) :
             SameElsewhere(Handled(ncall'.box, nkids[ncall'.box], k - 1, nkids'),
                           Handled(ncall'.box, nkids[ncall'.box], k, nkids'),
                           RootOrder[k])]_vars

\* P = Row(Q, a) with Q = Column() shown under both roots and closed under
\* root 1: root 2 keeps its three nodes
C14_Witness ==
  /\ nkids = [P |-> <<"Q", "a">>, Q |-> <<>>]
  /\ ncall = [op |-> "cleanup", box |-> "P", root |-> 1, err |-> "none"]
  /\ nnext = 7
  /\ \A c \in {"P", "Q", "a"} : nled[c][1] = Absent /\ nled[c][2] # Absent
  /\ nled["Q"][2].parent = nled["P"][2].node
  /\ nshown["P"][2] = <<nled["Q"][2].node, nled["a"][2].node>>

\* C15: P._cleanup(root) removes that root's ledger entry of P and of every
\* Component in its collection, through the nested container, so nothing
\* below P holds a node for the root; a container that reconciliation
\* disposes loses its entry and those of its children the same way.
C15_DisposeCascades ==
  [][/\ ncall'.op = "cleanup" =>
          \A c \in {"P"} \cup Below("P", nkids) : nled'[c][ncall'.root] = Absent
     /\ (ncall'.op = "assign" /\ ncall'.err = "none" /\ ncall'.box = "P"
           /\ "Q" \in Range(nkids["P"]) /\ "Q" \notin Range(nkids'["P"])) =>
          \A r \in Roots : nled["P"][r] # Absent =>
             /\ nled'["Q"][r] = Absent
             /\ \A c \in Range(nkids["Q"]) : nled'[c][r] = Absent]_vars

\* P = Row(Q, a) with Q = Column(b), shown under root 1 and closed again
C15_Witness ==
  /\ nkids = [P |-> <<"Q", "a">>, Q |-> <<"b">>]
  /\ ncall = [op |-> "cleanup", box |-> "P", root |-> 1, err |-> "none"]
  /\ nnext = 5
  /\ \A c \in NestComps : nled[c][1] = Absent

\* C16: when a Tabs whose _names and objects differ in length is displayed,
\* _get_objects raises the ValueError of the names check before any child is
\* materialized, reused or disposed: no ledger entry changes and the Tabs
\* gets no entry of its own. Whenever a handler reconciles the Tabs the two
\* lengths are equal.
C16_NamesMismatchRaisesFirst ==
  [][/\ (tcall'.op = "materialize" /\ Len(names) # Len(tobjects)) =>
          /\ tcall'.err = "ValueError"
          /\ tled' = tled
          /\ town' = town
          /\ tshown' = tshown
     /\ (tcall'.op = "materialize" /\ Len(names) = Len(tobjects)) =>
          tcall'.err = "none"
     /\ tcall'.op \in {"append", "pop"} =>
          (Len(names') = Len(tobjects') /\ tcall'.err # "ValueError")]_vars

\* Tabs(A) shown under root 1, then tabs.objects.append(B) in place: the
\* display under root 2 raises and root 1 keeps its two nodes
C16_Witness ==
  /\ tobjects = <<"A", "B">>
  /\ names = <<"A">>
  /\ tcall = [op |-> "materialize", err |-> "ValueError"]
  /\ town[1] # Absent
  /\ town[2] = Absent
  /\ tled["A"][1].parent = town[1].node
  /\ tled["B"] = [r \in Roots |-> Absent]

\* the stored Components whose region meets the region asked for, in the
\* grid as large as it is with the region asked for
Met(objs, key) ==
  LET tentative == Append(objs, [key |-> key, obj |-> "none"])
  IN  {objs[i].obj : i \in {j \in 1..Len(objs) :
                              RectsMeet(key, objs[j].key, nrows(tentative), ncols(tentative))}}

\* C17: in every grid, a region assignment that fails while its region meets
\* a stored region raises the overlap error, and the error names exactly the
\* stored Components whose region it meets, each once, whether the bounds of
\* the regions are given or open.
C17_OverlapReportComplete ==
  \A yidx \in AxisIndexes(RowStarts, RowStops), xidx \in AxisIndexes(ColStarts, ColStops) :
     LET res == SetItem(gobjects, yidx, xidx, "new")
         seen == Reported(gobjects, yidx, xidx, "new")
     IN  (res.err # "none" /\ Met(gobjects, KeyOf(yidx, xidx)) # {}) =>
            /\ res.err = "OverlapError"
            /\ Range(seen) = Met(gobjects, KeyOf(yidx, xidx))
            /\ Len(seen) = Cardinality(Met(gobjects, KeyOf(yidx, xidx)))

\* C18: under every root a container is displayed for, list-based, tabbed
\* or grid, the ledger entry of each of its children records the
\* container's own node as the parent, whatever the child's position.
C18_ParentIsContainerNode ==
  \A r \in Roots :
     /\ own[r] # Absent =>
          \A c \in Range(objects) :
             models[c][r] # Absent => models[c][r].parent = own[r].node
     /\ town[r] # Absent =>
          \A c \in Range(tobjects) :
             tled[c][r] # Absent => tled[c][r].parent = town[r].node
     /\ gown[r] # Absent =>
          \A c \in Range(GridValues(gobjects)) :
             gled[c][r] # Absent => gled[c][r].parent = gown[r].node

\* C19: when the mapping of a displayed grid is replaced, every Component of
\* the old mapping that is in the new one keeps the node it had for the root
\* and is not disposed, and every Component that is not in the new one is
\* disposed.
C19_GridReusesSurvivors ==
  [][(gcall'.op = "assign" /\ gcall'.err = "none") =>
       \A r \in Roots : gown[r] # Absent =>
          \A c \in Range(GridValues(gobjects)) :
             IF c \in Range(GridValues(gobjects'))
             THEN gled'[c][r] = gled[c][r]
             ELSE gled'[c][r] = Absent]_vars

\* C20: in a grid whose regions are non-empty and disjoint, grid[y, x] for a
\* cell inside the grid that a region covers returns the Component of that
\* region; an open row end is the row extent (0 or nrows), an open column
\* end the column extent (0 or ncols), square grid or not.
C20_ScalarLookupFindsOwner ==
  (C4_NoTwoKeysOverlap /\ C7_StoredSpansNonEmpty) =>
     \A cell \in Cells(nrows(gobjects), ncols(gobjects)) :
        \A i \in 1..Len(gobjects) :
           InSlice(cell, RowStart(gobjects[i].key), RowEnd(gobjects[i].key),
                   ColStart(gobjects[i].key), ColEnd(gobjects[i].key)) =>
              GetItem(gobjects, cell[1], cell[2]) = [err |-> "none", obj |-> gobjects[i].obj]

\* the Components a root's node of the grid shows
GridShownComps(r) ==
  {c \in GridComps : gled[c][r] # Absent /\
      \E i \in 1..Len(gshown[r]) : gshown[r][i].model = gled[c][r].node}

\* C21: a successful region assignment on a grid that is displayed under a
\* root is followed by the reconciliation of that root, so the children of
\* the root's node include the node of the content just assigned.
C21_PlacementReachesNode ==
  (gcall.op = "setitem" /\ gcall.err = "none") =>
     \A r \in Roots : gown[r] # Absent =>
        gobjects[Len(gobjects)].obj \in GridShownComps(r)

C23_ExtentsPositiveAtMaterialize ==
  gcall.op = "materialize" =>
     /\ nrows(gobjects) >= 1
     /\ ncols(gobjects) >= 1
     /\ gcall.err # "ZeroDivisionError"

====
